---------------------------- MODULE Spec2Model ----------------------------
(***************************************************************************)
(* RopodEnv (gym_ropod/envs/ropod_env.py): the lifecycle of the roscore,   *)
(* roslaunch and gzclient processes an environment owns.                   *)
(*                                                                         *)
(* One caller drives the environment (the class is single-threaded); the   *)
(* operating system runs beside it: a running process may exit at any      *)
(* time, and the reset service comes up once roscore and the simulator     *)
(* are running.  Blocking calls (rospy.wait_for_service, Popen.wait) are   *)
(* actions that are enabled only when the awaited condition holds.         *)
(***************************************************************************)
EXTENDS Integers, Sequences, FiniteSets

VARIABLES
    launch_file_exists, \* os.path.exists(launch_file_path)
    pc,                 \* where the caller is
    err,                \* what the last finished call raised ("none": it returned)
    roscore_process,    \* self.roscore_process
    sim_process,        \* self.sim_process
    sim_vis_process,    \* self.sim_vis_process
    reset_sim_proxy,    \* self.reset_sim_proxy
    node_initialised,   \* rospy.init_node('gym') has run
    procs,              \* the processes spawned so far, by pid
    service_up,         \* the reset service is available now
    slept,              \* seconds slept by the constructor
    service_ever_up,    \* history: the reset service has been available
    wait_started,       \* history: rospy.wait_for_service has been entered
    log,                \* history: the calls that have finished, in order
    close_log           \* history: terminate()/wait() calls of the latest close()

vars == <<launch_file_exists, pc, err, roscore_process, sim_process,
          sim_vis_process, reset_sim_proxy, node_initialised, procs,
          service_up, slept, service_ever_up, wait_started, log, close_log>>

\* Bounds of the model.
MaxVis == 2
MaxCalls == 4

\* time.sleep(1)
SleepSeconds == 1

Actions == {0, 1}
Modes == {"human", "rgb_array"}

----------------------------------------------------------------------------
\* Attribute values: not assigned yet, None, or a Popen object.
Unset == [kind |-> "unset", pid |-> 0]
None == [kind |-> "none", pid |-> 0]
Handle(p) == [kind |-> "popen", pid |-> p]

\* subprocess.Popen(argv): a new running process; its pid is its index.
Popen(pr, cmd, args) ==
    Append(pr, [cmd |-> cmd, args |-> args, state |-> "running",
                sigterm |-> FALSE, returncode |-> "None"])

\* Popen.poll(): records the exit status once the process has exited.
poll(pr, p) ==
    IF pr[p].returncode = "None" /\ pr[p].state = "exited"
    THEN [pr EXCEPT ![p].returncode = "set"]
    ELSE pr

PollIsNone(pr, p) == poll(pr, p)[p].returncode = "None"

\* Popen.terminate(): polls, and signals only a process not known to have exited.
terminate(pr, p) ==
    IF PollIsNone(pr, p) THEN [pr EXCEPT ![p].sigterm = TRUE] ELSE poll(pr, p)

\* Popen.wait() returns once the process has exited.
WaitReturns(pr, p) == pr[p].state = "exited"

VisPids(pr) == {p \in 1..Len(pr) : pr[p].cmd = "gzclient"}

CtorPcs == {"ctor_roscore", "ctor_sleep", "ctor_sim", "ctor_wait",
            "ctor_vis_none", "ctor_init_node"}
ClosePcs == {"close_vis_wait", "close_sim_term", "close_core_term",
             "close_sim_wait", "close_core_wait"}

\* A call finishes: it returned (e = "none") or raised e.
Finish(op, e) ==
    /\ pc' = "idle"
    /\ err' = e
    /\ log' = Append(log, op)

----------------------------------------------------------------------------
Init ==
    /\ launch_file_exists \in BOOLEAN
    /\ pc = "start"
    /\ err = "none"
    /\ roscore_process = Unset
    /\ sim_process = Unset
    /\ sim_vis_process = Unset
    /\ reset_sim_proxy = "unset"
    /\ node_initialised = FALSE
    /\ procs = <<>>
    /\ service_up = FALSE
    /\ slept = 0
    /\ service_ever_up = FALSE
    /\ wait_started = FALSE
    /\ log = <<>>
    /\ close_log = <<>>

----------------------------------------------------------------------------
\* __init__, lines 25-26: the launch file path is checked first.
CtorCheckPath_NoCheck ==
    /\ pc = "start"
    /\ pc' = "ctor_roscore"
    /\ UNCHANGED <<launch_file_exists, err, roscore_process, sim_process,
                   sim_vis_process, reset_sim_proxy, node_initialised, procs,
                   service_up, slept, service_ever_up, wait_started, log,
                   close_log>>

CtorCheckPath ==
    /\ pc = "start"
    /\ IF ~launch_file_exists
       THEN /\ pc' = "failed"
            /\ err' = "IOError"
       ELSE /\ pc' = "ctor_roscore"
            /\ err' = err
    /\ UNCHANGED <<launch_file_exists, roscore_process, sim_process,
                   sim_vis_process, reset_sim_proxy, node_initialised, procs,
                   service_up, slept, service_ever_up, wait_started, log,
                   close_log>>

\* Line 29.
CtorLaunchRoscore ==
    /\ pc = "ctor_roscore"
    /\ procs' = Popen(procs, "roscore", "-p")
    /\ roscore_process' = Handle(Len(procs) + 1)
    /\ pc' = "ctor_sleep"
    /\ UNCHANGED <<launch_file_exists, err, sim_process, sim_vis_process,
                   reset_sim_proxy, node_initialised, service_up, slept,
                   service_ever_up, wait_started, log, close_log>>

\* Line 30.
CtorSleep ==
    /\ pc = "ctor_sleep"
    /\ slept' = slept + SleepSeconds
    /\ pc' = "ctor_sim"
    /\ UNCHANGED <<launch_file_exists, err, roscore_process, sim_process,
                   sim_vis_process, reset_sim_proxy, node_initialised, procs,
                   service_up, service_ever_up, wait_started, log, close_log>>

\* Lines 34-39: the simulator is launched and the wait for the service begins.
CtorLaunchSim ==
    /\ pc = "ctor_sim"
    /\ procs' = Popen(procs, "roslaunch", "gui:=false")
    /\ sim_process' = Handle(Len(procs) + 1)
    /\ wait_started' = TRUE
    /\ pc' = "ctor_wait"
    /\ UNCHANGED <<launch_file_exists, err, roscore_process, sim_vis_process,
                   reset_sim_proxy, node_initialised, service_up, slept,
                   service_ever_up, log, close_log>>

\* Lines 39-40: rospy.wait_for_service blocks, with no timeout.
CtorWaitForService_NoBlock ==
    /\ pc = "ctor_wait"
    /\ reset_sim_proxy' = "proxy"
    /\ pc' = "ctor_vis_none"
    /\ UNCHANGED <<launch_file_exists, err, roscore_process, sim_process,
                   sim_vis_process, node_initialised, procs, service_up, slept,
                   service_ever_up, wait_started, log, close_log>>

CtorWaitForService ==
    /\ pc = "ctor_wait"
    /\ service_up
    /\ reset_sim_proxy' = "proxy"
    /\ pc' = "ctor_vis_none"
    /\ UNCHANGED <<launch_file_exists, err, roscore_process, sim_process,
                   sim_vis_process, node_initialised, procs, service_up, slept,
                   service_ever_up, wait_started, log, close_log>>

\* Line 43.
CtorSetVisNone_Eager ==
    /\ pc = "ctor_vis_none"
    /\ procs' = Popen(procs, "gzclient", "")
    /\ sim_vis_process' = Handle(Len(procs) + 1)
    /\ pc' = "ctor_init_node"
    /\ UNCHANGED <<launch_file_exists, err, roscore_process, sim_process,
                   reset_sim_proxy, node_initialised, service_up, slept,
                   service_ever_up, wait_started, log, close_log>>

CtorSetVisNone ==
    /\ pc = "ctor_vis_none"
    /\ sim_vis_process' = None
    /\ pc' = "ctor_init_node"
    /\ UNCHANGED <<launch_file_exists, err, roscore_process, sim_process,
                   reset_sim_proxy, node_initialised, procs, service_up, slept,
                   service_ever_up, wait_started, log, close_log>>

\* Lines 46-47: the constructor returns.
CtorInitNode ==
    /\ pc = "ctor_init_node"
    /\ node_initialised' = TRUE
    /\ Finish("__init__", "none")
    /\ UNCHANGED <<launch_file_exists, roscore_process, sim_process,
                   sim_vis_process, reset_sim_proxy, procs, service_up, slept,
                   service_ever_up, wait_started, close_log>>

----------------------------------------------------------------------------
\* step, lines 49-57.
Step_NoRaise(action) ==
    /\ pc = "idle"
    /\ Len(log) < MaxCalls
    /\ Finish("step", "none")
    /\ UNCHANGED <<launch_file_exists, roscore_process, sim_process,
                   sim_vis_process, reset_sim_proxy, node_initialised, procs,
                   service_up, slept, service_ever_up, wait_started, close_log>>

Step(action) ==
    /\ pc = "idle"
    /\ Len(log) < MaxCalls
    /\ Finish("step", "NotImplementedError")
    /\ UNCHANGED <<launch_file_exists, roscore_process, sim_process,
                   sim_vis_process, reset_sim_proxy, node_initialised, procs,
                   service_up, slept, service_ever_up, wait_started, close_log>>

\* reset, lines 59-63.
Reset ==
    /\ pc = "idle"
    /\ Len(log) < MaxCalls
    /\ Finish("reset", "NotImplementedError")
    /\ UNCHANGED <<launch_file_exists, roscore_process, sim_process,
                   sim_vis_process, reset_sim_proxy, node_initialised, procs,
                   service_up, slept, service_ever_up, wait_started, close_log>>

\* render, line 73: the condition under which a gzclient is started.
NeedsNewVis_Always(h, pr) == TRUE

NeedsNewVis_Inverted(h, pr) == h.kind = "none" \/ PollIsNone(pr, h.pid)

NeedsNewVis(h, pr) == h.kind = "none" \/ ~PollIsNone(pr, h.pid)

\* render, lines 65-74.  Reading an attribute that was never assigned raises.
Render(mode) ==
    /\ pc = "idle"
    /\ Len(log) < MaxCalls
    /\ IF sim_vis_process.kind = "unset"
       THEN /\ Finish("render", "AttributeError")
            /\ UNCHANGED <<procs, sim_vis_process>>
       ELSE LET polled == IF sim_vis_process.kind = "popen"
                          THEN poll(procs, sim_vis_process.pid)
                          ELSE procs
            IN  IF NeedsNewVis(sim_vis_process, procs)
                THEN /\ Cardinality(VisPids(procs)) < MaxVis
                     /\ procs' = Popen(polled, "gzclient", "")
                     /\ sim_vis_process' = Handle(Len(procs) + 1)
                     /\ Finish("render", "none")
                ELSE /\ procs' = polled
                     /\ sim_vis_process' = sim_vis_process
                     /\ Finish("render", "none")
    /\ UNCHANGED <<launch_file_exists, roscore_process, sim_process,
                   reset_sim_proxy, node_initialised, service_up, slept,
                   service_ever_up, wait_started, close_log>>

----------------------------------------------------------------------------
\* close, line 79, and _close_sim_client, lines 85-89: a gzclient that is
\* still running is asked to terminate, and is then waited for.
CloseSimClient_NoNoneCheck ==
    /\ pc = "idle"
    /\ Len(log) < MaxCalls
    /\ IF sim_vis_process.kind # "popen"
       THEN /\ Finish("close", "AttributeError")
            /\ close_log' = <<>>
            /\ procs' = procs
       ELSE IF PollIsNone(procs, sim_vis_process.pid)
       THEN /\ procs' = terminate(procs, sim_vis_process.pid)
            /\ close_log' = <<[call |-> "terminate", pid |-> sim_vis_process.pid]>>
            /\ pc' = "close_vis_wait"
            /\ UNCHANGED <<err, log>>
       ELSE /\ procs' = poll(procs, sim_vis_process.pid)
            /\ close_log' = <<>>
            /\ pc' = "close_sim_term"
            /\ UNCHANGED <<err, log>>
    /\ UNCHANGED <<launch_file_exists, roscore_process, sim_process,
                   sim_vis_process, reset_sim_proxy, node_initialised,
                   service_up, slept, service_ever_up, wait_started>>

CloseSimClient_NoWait ==
    /\ pc = "idle"
    /\ Len(log) < MaxCalls
    /\ IF sim_vis_process.kind = "unset"
       THEN /\ Finish("close", "AttributeError")
            /\ close_log' = <<>>
            /\ procs' = procs
       ELSE IF sim_vis_process.kind = "popen"
               /\ PollIsNone(procs, sim_vis_process.pid)
       THEN /\ procs' = terminate(procs, sim_vis_process.pid)
            /\ close_log' = <<[call |-> "terminate", pid |-> sim_vis_process.pid]>>
            /\ pc' = "close_sim_term"
            /\ UNCHANGED <<err, log>>
       ELSE /\ procs' = IF sim_vis_process.kind = "popen"
                        THEN poll(procs, sim_vis_process.pid)
                        ELSE procs
            /\ close_log' = <<>>
            /\ pc' = "close_sim_term"
            /\ UNCHANGED <<err, log>>
    /\ UNCHANGED <<launch_file_exists, roscore_process, sim_process,
                   sim_vis_process, reset_sim_proxy, node_initialised,
                   service_up, slept, service_ever_up, wait_started>>

CloseSimClient ==
    /\ pc = "idle"
    /\ Len(log) < MaxCalls
    /\ IF sim_vis_process.kind = "unset"
       THEN /\ Finish("close", "AttributeError")
            /\ close_log' = <<>>
            /\ procs' = procs
       ELSE IF sim_vis_process.kind = "popen"
               /\ PollIsNone(procs, sim_vis_process.pid)
       THEN /\ procs' = terminate(procs, sim_vis_process.pid)
            /\ close_log' = <<[call |-> "terminate", pid |-> sim_vis_process.pid]>>
            /\ pc' = "close_vis_wait"
            /\ UNCHANGED <<err, log>>
       ELSE /\ procs' = IF sim_vis_process.kind = "popen"
                        THEN poll(procs, sim_vis_process.pid)
                        ELSE procs
            /\ close_log' = <<>>
            /\ pc' = "close_sim_term"
            /\ UNCHANGED <<err, log>>
    /\ UNCHANGED <<launch_file_exists, roscore_process, sim_process,
                   sim_vis_process, reset_sim_proxy, node_initialised,
                   service_up, slept, service_ever_up, wait_started>>

\* _close_sim_client, line 90.
CloseVisWait ==
    /\ pc = "close_vis_wait"
    /\ WaitReturns(procs, sim_vis_process.pid)
    /\ procs' = poll(procs, sim_vis_process.pid)
    /\ close_log' = Append(close_log, [call |-> "wait", pid |-> sim_vis_process.pid])
    /\ pc' = "close_sim_term"
    /\ UNCHANGED <<launch_file_exists, err, roscore_process, sim_process,
                   sim_vis_process, reset_sim_proxy, node_initialised,
                   service_up, slept, service_ever_up, wait_started, log>>

\* close, line 80.  Calling a method of None raises.
CloseTerminateSim ==
    /\ pc = "close_sim_term"
    /\ IF sim_process.kind # "popen"
       THEN /\ Finish("close", "AttributeError")
            /\ UNCHANGED <<procs, close_log>>
       ELSE /\ procs' = terminate(procs, sim_process.pid)
            /\ close_log' = Append(close_log, [call |-> "terminate", pid |-> sim_process.pid])
            /\ pc' = "close_core_term"
            /\ UNCHANGED <<err, log>>
    /\ UNCHANGED <<launch_file_exists, roscore_process, sim_process,
                   sim_vis_process, reset_sim_proxy, node_initialised,
                   service_up, slept, service_ever_up, wait_started>>

\* close, line 81.
CloseTerminateRoscore ==
    /\ pc = "close_core_term"
    /\ IF roscore_process.kind # "popen"
       THEN /\ Finish("close", "AttributeError")
            /\ UNCHANGED <<procs, close_log>>
       ELSE /\ procs' = terminate(procs, roscore_process.pid)
            /\ close_log' = Append(close_log, [call |-> "terminate", pid |-> roscore_process.pid])
            /\ pc' = "close_sim_wait"
            /\ UNCHANGED <<err, log>>
    /\ UNCHANGED <<launch_file_exists, roscore_process, sim_process,
                   sim_vis_process, reset_sim_proxy, node_initialised,
                   service_up, slept, service_ever_up, wait_started>>

\* close, line 82.
CloseWaitSim ==
    /\ pc = "close_sim_wait"
    /\ WaitReturns(procs, sim_process.pid)
    /\ procs' = poll(procs, sim_process.pid)
    /\ close_log' = Append(close_log, [call |-> "wait", pid |-> sim_process.pid])
    /\ pc' = "close_core_wait"
    /\ UNCHANGED <<launch_file_exists, err, roscore_process, sim_process,
                   sim_vis_process, reset_sim_proxy, node_initialised,
                   service_up, slept, service_ever_up, wait_started, log>>

\* close, line 83: close returns.
CloseWaitRoscore_NoWait ==
    /\ pc = "close_core_wait"
    /\ Finish("close", "none")
    /\ UNCHANGED <<launch_file_exists, roscore_process, sim_process,
                   sim_vis_process, reset_sim_proxy, node_initialised, procs,
                   service_up, slept, service_ever_up, wait_started, close_log>>

CloseWaitRoscore_ClearsHandles ==
    /\ pc = "close_core_wait"
    /\ WaitReturns(procs, roscore_process.pid)
    /\ procs' = poll(procs, roscore_process.pid)
    /\ close_log' = Append(close_log, [call |-> "wait", pid |-> roscore_process.pid])
    /\ sim_process' = None
    /\ roscore_process' = None
    /\ Finish("close", "none")
    /\ UNCHANGED <<launch_file_exists, sim_vis_process, reset_sim_proxy,
                   node_initialised, service_up, slept, service_ever_up,
                   wait_started>>

CloseWaitRoscore ==
    /\ pc = "close_core_wait"
    /\ WaitReturns(procs, roscore_process.pid)
    /\ procs' = poll(procs, roscore_process.pid)
    /\ close_log' = Append(close_log, [call |-> "wait", pid |-> roscore_process.pid])
    /\ Finish("close", "none")
    /\ UNCHANGED <<launch_file_exists, roscore_process, sim_process,
                   sim_vis_process, reset_sim_proxy, node_initialised,
                   service_up, slept, service_ever_up, wait_started>>

----------------------------------------------------------------------------
\* The operating system: a running process exits, on a signal or by itself.
\* The reset service goes with the simulator and with roscore.
ProcExits(p) ==
    /\ procs[p].state = "running"
    /\ procs' = [procs EXCEPT ![p].state = "exited"]
    /\ service_up' = IF procs[p].cmd \in {"roscore", "roslaunch"}
                     THEN FALSE
                     ELSE service_up
    /\ UNCHANGED <<launch_file_exists, pc, err, roscore_process, sim_process,
                   sim_vis_process, reset_sim_proxy, node_initialised, slept,
                   service_ever_up, wait_started, log, close_log>>

\* The simulator advertises the reset service while it and roscore run.
ServiceUp ==
    /\ ~service_up
    /\ \E b, s \in 1..Len(procs) :
          /\ procs[b].cmd = "roscore" /\ procs[b].state = "running"
          /\ procs[s].cmd = "roslaunch" /\ procs[s].state = "running"
    /\ service_up' = TRUE
    /\ service_ever_up' = TRUE
    /\ UNCHANGED <<launch_file_exists, pc, err, roscore_process, sim_process,
                   sim_vis_process, reset_sim_proxy, node_initialised, procs,
                   slept, wait_started, log, close_log>>

----------------------------------------------------------------------------
Next ==
    \/ CtorCheckPath
    \/ CtorLaunchRoscore
    \/ CtorSleep
    \/ CtorLaunchSim
    \/ CtorWaitForService
    \/ CtorSetVisNone
    \/ CtorInitNode
    \/ \E action \in Actions : Step(action)
    \/ Reset
    \/ \E mode \in Modes : Render(mode)
    \/ CloseSimClient
    \/ CloseVisWait
    \/ CloseTerminateSim
    \/ CloseTerminateRoscore
    \/ CloseWaitSim
    \/ CloseWaitRoscore
    \/ \E p \in 1..Len(procs) : ProcExits(p)
    \/ ServiceUp

Spec == Init /\ [][Next]_vars

----------------------------------------------------------------------------
\* Vocabulary of the properties.
Range(s) == {s[i] : i \in 1..Len(s)}
Last(s) == s[Len(s)]
Count(op) == Cardinality({i \in 1..Len(log) : log[i] = op})
Running(p) == procs[p].state = "running"
ReportsExited(h) == h.kind = "popen" /\ ~PollIsNone(procs, h.pid)
ConstructorReturned == "__init__" \in Range(log)
CloseReturned == pc = "idle" /\ log # <<>> /\ Last(log) = "close" /\ err = "none"
TerminateRequested == {close_log[i].pid : i \in {j \in 1..Len(close_log) : close_log[j].call = "terminate"}}
VisStopped == sim_vis_process.kind = "none" \/ (sim_vis_process.kind = "popen" /\ ~Running(sim_vis_process.pid))

\* C1: with a launch file path that does not exist the constructor raises
\* IOError, and then no process has been spawned, no attribute assigned and
\* the wait for the reset service has not been started.
C1_BadPathRaisesBeforeSpawn ==
    (~launch_file_exists /\ pc # "start") =>
        /\ pc = "failed"
        /\ err = "IOError"
        /\ procs = <<>>
        /\ ~wait_started
        /\ roscore_process = Unset /\ sim_process = Unset /\ sim_vis_process = Unset

C1_Witness == pc = "failed" /\ ~launch_file_exists /\ err = "IOError"

\* C2: once close() has returned, the roscore handle and the simulator handle
\* both report an exit status, whatever renders and gzclient deaths came before.
C2_ClosedHandlesReportExited ==
    CloseReturned => ReportsExited(roscore_process) /\ ReportsExited(sim_process)

C2_Witness ==
    /\ CloseReturned
    /\ Count("render") = 2
    /\ Cardinality(VisPids(procs)) = 2
    /\ ReportsExited(roscore_process) /\ ReportsExited(sim_process)

\* C3: a render call that directly follows a render call, with the gzclient
\* still running, spawns nothing and leaves the stored handle unchanged; when
\* the two calls are the first two, exactly one gzclient has been started.
C3_SecondRenderSpawnsNothing ==
    [][(/\ pc = "idle"
        /\ log # <<>>
        /\ Last(log) = "render"
        /\ log' = Append(log, "render")
        /\ sim_vis_process.kind = "popen"
        /\ Running(sim_vis_process.pid))
       => (/\ Len(procs') = Len(procs)
           /\ VisPids(procs') = VisPids(procs)
           /\ sim_vis_process' = sim_vis_process
           /\ err' = "none"
           /\ (Count("render") = 1 => Cardinality(VisPids(procs')) = 1))]_vars

C3_Witness ==
    /\ pc = "idle"
    /\ log = <<"__init__", "render", "render">>
    /\ Cardinality(VisPids(procs)) = 1
    /\ sim_vis_process.kind = "popen"
    /\ Running(sim_vis_process.pid)

\* C4: a close() on a constructed environment on which render was never called
\* raises nothing, calls terminate() on exactly roscore and the simulator, and
\* no gzclient is ever spawned, signalled or waited for.
C4_CloseWithoutRender ==
    ("render" \notin Range(log) /\ ConstructorReturned) =>
        /\ VisPids(procs) = {}
        /\ sim_vis_process = None
        /\ pc # "close_vis_wait"
        /\ (pc \in ClosePcs =>
                TerminateRequested \subseteq {roscore_process.pid, sim_process.pid})
        /\ ((pc = "idle" /\ Last(log) = "close") =>
                /\ err = "none"
                /\ TerminateRequested = {roscore_process.pid, sim_process.pid}
                /\ Len(procs) = 2)

C4_Witness ==
    /\ CloseReturned
    /\ "render" \notin Range(log)
    /\ TerminateRequested = {roscore_process.pid, sim_process.pid}

\* C5: roscore is the first process started; the simulator is started second,
\* after the pause; the constructor gets past the wait (and so returns) only
\* if the reset service has been available.
C5_StartupOrder ==
    /\ (Len(procs) >= 1 => procs[1].cmd = "roscore" /\ roscore_process = Handle(1))
    /\ (Len(procs) >= 2 =>
            /\ procs[2].cmd = "roslaunch"
            /\ sim_process = Handle(2)
            /\ slept >= SleepSeconds)
    /\ (pc \in {"start", "failed", "ctor_roscore"} => procs = <<>>)
    /\ (pc \in {"ctor_sleep", "ctor_sim"} => Len(procs) = 1)
    /\ (pc \in {"ctor_vis_none", "ctor_init_node"} \/ ConstructorReturned =>
            service_ever_up /\ reset_sim_proxy = "proxy" /\ Len(procs) >= 2)
    /\ (~service_ever_up => ~ConstructorReturned /\ pc # "idle")

C5_Witness ==
    /\ pc = "idle"
    /\ log = <<"__init__">>
    /\ service_ever_up
    /\ Len(procs) = 2

\* C6: step and reset of the base class raise NotImplementedError and change
\* no handle and no process.
C6_StepResetNotImplemented ==
    [][(pc = "idle" /\ (log' = Append(log, "step") \/ log' = Append(log, "reset")))
       => (/\ err' = "NotImplementedError"
           /\ procs' = procs
           /\ roscore_process' = roscore_process
           /\ sim_process' = sim_process
           /\ sim_vis_process' = sim_vis_process)]_vars

C6_Witness ==
    /\ pc = "idle"
    /\ log = <<"__init__", "render", "step", "reset">>
    /\ err = "NotImplementedError"
    /\ Running(sim_vis_process.pid)

\* C7: within close(), terminate() is called on the simulator and on roscore
\* only once the gzclient is stopped: if it was running, terminate() and
\* wait() on it come first in the call order, and it has exited by then.
C7_VisStoppedFirst ==
    /\ (pc \in ClosePcs \ {"close_vis_wait"} => VisStopped)
    /\ (pc = "close_vis_wait" =>
            close_log = <<[call |-> "terminate", pid |-> sim_vis_process.pid]>>)
    /\ \A i \in 1..Len(close_log) :
          (close_log[i].call = "terminate" /\ close_log[i].pid \in VisPids(procs)) =>
              /\ i = 1
              /\ (Len(close_log) >= 3 =>
                      close_log[2] = [call |-> "wait", pid |-> close_log[1].pid])

C7_Witness ==
    /\ CloseReturned
    /\ Len(close_log) = 6
    /\ close_log[1] = [call |-> "terminate", pid |-> sim_vis_process.pid]
    /\ close_log[2] = [call |-> "wait", pid |-> sim_vis_process.pid]
    /\ close_log[3] = [call |-> "terminate", pid |-> sim_process.pid]
    /\ close_log[4] = [call |-> "terminate", pid |-> roscore_process.pid]

\* C8: until the first render call no gzclient has been spawned and the
\* handle is absent (None once the constructor has returned); the simulator
\* is launched with gui:=false; the first render call spawns exactly one.
C8_LazyVisualization ==
    /\ ("render" \notin Range(log) =>
            /\ VisPids(procs) = {}
            /\ sim_vis_process.kind # "popen"
            /\ (ConstructorReturned => sim_vis_process = None))
    /\ (\A p \in 1..Len(procs) :
            procs[p].cmd = "roslaunch" => procs[p].args = "gui:=false")
    /\ (Count("render") = 1 =>
            /\ Cardinality(VisPids(procs)) = 1
            /\ sim_vis_process.kind = "popen"
            /\ sim_vis_process.pid \in VisPids(procs))

C8_Witness ==
    /\ log = <<"__init__", "step", "render">>
    /\ Cardinality(VisPids(procs)) = 1
    /\ sim_vis_process = Handle(3)

\* C9: every running gzclient is the one the stored handle refers to, so at
\* most one is running; a gzclient is spawned only when the handle is None or
\* its process has exited.
C9_AtMostOneLiveVis ==
    /\ [](\A p \in VisPids(procs) : Running(p) => sim_vis_process = Handle(p))
    /\ [][VisPids(procs') # VisPids(procs) => VisStopped]_vars

C9_Witness ==
    /\ log = <<"__init__", "render", "close", "render">>
    /\ Cardinality(VisPids(procs)) = 2
    /\ Running(sim_vis_process.pid)
    /\ Cardinality({p \in VisPids(procs) : Running(p)}) = 1

\* C10: a close() that directly follows a close() that returned raises
\* nothing, changes no process (none is spawned, signalled or reaped) and
\* finds roscore, the simulator and any gzclient already exited.
C10_CloseIdempotent ==
    [][(/\ log # <<>>
        /\ Last(log) = "close"
        /\ err = "none"
        /\ (pc \in ClosePcs \/ pc' \in ClosePcs \/ log' = Append(log, "close")))
       => (/\ procs' = procs
           /\ err' = "none"
           /\ pc' # "close_vis_wait"
           /\ VisStopped
           /\ ReportsExited(roscore_process)
           /\ ReportsExited(sim_process)
           /\ \A p \in 1..Len(procs) : ~Running(p))]_vars

C10_Witness ==
    /\ pc = "idle"
    /\ log = <<"__init__", "render", "close", "close">>
    /\ err = "none"
    /\ Len(close_log) = 4

============================================================================
